---- MODULE Spec2Model ----
\* Sudoku grid validator (check_sudoku) and static-candidate backtracking
\* solver (solve_sudoku) of src/problem_set_3/sudoku_checker.py.
\*
\* Python values are tagged records: an int n is PyInt(n), any other object
\* has another tag.  Lists are sequences (Python index i is TLA+ index i+1).
\* Dictionaries are functions whose DOMAIN is the set of keys.  Grid objects
\* live in a heap of mutable objects addressed by reference, so that aliasing
\* and copying are distinguishable.
EXTENDS Integers, Sequences, FiniteSets, TLC

VARIABLES
    heap,            \* the grid objects: reference |-> contents
    caller,          \* reference of the grid the caller passes
    original,        \* contents of the caller's grid as passed
    edits,           \* cells and rows the caller changed so far
    pc,              \* "idle", "checked", "solving", "done", "raised"
    checked,         \* what check_sudoku returned on the caller's grid
    supplied,        \* open_positions argument: 0 is None, d > 0 a dict
    open_positions,  \* the candidate dict the search reads
    stack,           \* activation records of _solve, innermost last
    ret,             \* value an activation of _solve has just returned
    result,          \* outcome of solve_sudoku
    resubmits        \* how often a returned grid was passed back in

vars == <<heap, caller, original, edits, pc, checked, supplied,
          open_positions, stack, ret, result, resubmits>>

\* ------------------------------------------------------------------
\* Bounds of the explored input space
\* ------------------------------------------------------------------
MaxEdits == 2

MaxDead == 2

MaxResubmits == 1

\* ------------------------------------------------------------------
\* Python values
\* ------------------------------------------------------------------
PyInt(n) == [type |-> "int", val |-> n]

NonInt == [type |-> "str", val |-> 0]

isinstance_int(v) == v.type = "int"

PyNone == "None"

PyTrue == "True"

PyFalse == "False"

PyException == "Exception"

InList(x, list) == \E i \in 1..Len(list) : list[i] = x

DigitChars == <<"0", "1", "2", "3", "4", "5", "6", "7", "8", "9">>

str(n) == DigitChars[n + 1]

\* A dictionary of lists whose missing keys read as [] (defaultdict(lambda:
\* []), or a dict whose keys are created with [] on first use) is a function
\* over every key it can ever hold, [] where nothing was appended yet.
ListDict(keys) == [k \in keys |-> <<>>]

\* dict[key].append(value)
DictAppend(dict, key, value) == [dict EXCEPT ![key] = Append(@, value)]

EmptyDict == [k \in {} |-> <<>>]

\* ------------------------------------------------------------------
\* Test grids of the source, and two further inputs
\* ------------------------------------------------------------------
Ints(row) == [i \in 1..Len(row) |-> PyInt(row[i])]

MkGrid(rows) == [i \in 1..Len(rows) |-> Ints(rows[i])]

ill_formed == MkGrid(<< <<5,3,4,6,7,8,9,1,2>>,
                        <<6,7,2,1,9,5,3,4,8>>,
                        <<1,9,8,3,4,2,5,6,7>>,
                        <<8,5,9,7,6,1,4,2,3>>,
                        <<4,2,6,8,5,3,7,9>>,
                        <<7,1,3,9,2,4,8,5,6>>,
                        <<9,6,1,5,3,7,2,8,4>>,
                        <<2,8,7,4,1,9,6,3,5>>,
                        <<3,4,5,2,8,6,1,7,9>> >>)

valid == MkGrid(<< <<5,3,4,6,7,8,9,1,2>>,
                   <<6,7,2,1,9,5,3,4,8>>,
                   <<1,9,8,3,4,2,5,6,7>>,
                   <<8,5,9,7,6,1,4,2,3>>,
                   <<4,2,6,8,5,3,7,9,1>>,
                   <<7,1,3,9,2,4,8,5,6>>,
                   <<9,6,1,5,3,7,2,8,4>>,
                   <<2,8,7,4,1,9,6,3,5>>,
                   <<3,4,5,2,8,6,1,7,9>> >>)

invalid == MkGrid(<< <<5,3,4,6,7,8,9,1,2>>,
                     <<6,7,2,1,9,5,3,4,8>>,
                     <<1,9,8,3,8,2,5,6,7>>,
                     <<8,5,9,7,6,1,4,2,3>>,
                     <<4,2,6,8,5,3,7,9,1>>,
                     <<7,1,3,9,2,4,8,5,6>>,
                     <<9,6,1,5,3,7,2,8,4>>,
                     <<2,8,7,4,1,9,6,3,5>>,
                     <<3,4,5,2,8,6,1,7,9>> >>)

easy == MkGrid(<< <<2,9,0,0,0,0,0,7,0>>,
                  <<3,0,6,0,0,8,4,0,0>>,
                  <<8,0,0,0,4,0,0,0,2>>,
                  <<0,2,0,0,3,1,0,0,7>>,
                  <<0,0,0,0,8,0,0,0,0>>,
                  <<1,0,0,9,5,0,0,6,0>>,
                  <<7,0,0,0,9,0,0,0,1>>,
                  <<0,0,1,2,0,0,3,0,6>>,
                  <<0,3,0,0,0,0,0,5,9>> >>)

hard == MkGrid(<< <<1,0,0,0,0,7,0,9,0>>,
                  <<0,3,0,0,2,0,0,0,8>>,
                  <<0,0,9,6,0,0,5,0,0>>,
                  <<0,0,5,3,0,0,9,0,0>>,
                  <<0,1,0,0,8,0,0,0,2>>,
                  <<6,0,0,0,0,4,0,0,0>>,
                  <<3,0,0,0,0,0,0,1,0>>,
                  <<0,4,0,0,0,0,0,0,7>>,
                  <<0,0,7,0,0,0,3,0,0>> >>)

\* the 9x9 all-zero grid
blank == [i \in 1..9 |-> [j \in 1..9 |-> PyInt(0)]]

\* cell (0,0) is empty; its row holds 1..8 and its column holds 9
contradiction == MkGrid(<< <<0,1,2,3,4,5,6,7,8>>,
                           <<0,0,0,0,0,0,0,0,0>>,
                           <<0,0,0,0,0,0,0,0,0>>,
                           <<9,0,0,0,0,0,0,0,0>>,
                           <<0,0,0,0,0,0,0,0,0>>,
                           <<0,0,0,0,0,0,0,0,0>>,
                           <<0,0,0,0,0,0,0,0,0>>,
                           <<0,0,0,0,0,0,0,0,0>>,
                           <<0,0,0,0,0,0,0,0,0>> >>)

BaseGrids == {ill_formed, valid, invalid, easy, hard, blank, contradiction}

\* cells the caller may overwrite before the call: (0,0)-(0,4) share only a
\* row, (0,0)-(4,0) only a column, (0,0)-(1,1) only a box
EditCells == {<<0, 0>>, <<0, 4>>, <<1, 1>>, <<4, 0>>}

EditValues == {PyInt(0), PyInt(5), PyInt(-1), PyInt(10), NonInt}

\* ------------------------------------------------------------------
\* GridValidator
\* ------------------------------------------------------------------
\* fault variant: remainder instead of quotient
make_subgrid_id_modulo(row_val, col_val) ==
    LET row_num == row_val % 3
        col_num == col_val % 3
    IN  str(row_num) \o str(col_num)

make_subgrid_id(row_val, col_val) ==
    LET row_num == row_val \div 3
        col_num == col_val \div 3
    IN  str(row_num) \o str(col_num)

SubgridIds == {make_subgrid_id(r, c) : r \in 0..8, c \in 0..8}

is_9x9_grid(grid) ==
    IF Len(grid) # 9 THEN FALSE
    ELSE \A i \in 1..Len(grid) : Len(grid[i]) = 9

\* fault variant: upper limit of the range test off by one
contains_only_0_to_10(grid) ==
    \A i \in 1..Len(grid) : \A j \in 1..Len(grid[i]) :
        LET col == grid[i][j]
        IN  /\ isinstance_int(col)
            /\ ~(col.val < 0 \/ col.val > 10)

contains_only_0_to_9(grid) ==
    \A i \in 1..Len(grid) : \A j \in 1..Len(grid[i]) :
        LET col == grid[i][j]
        IN  /\ isinstance_int(col)
            /\ ~(col.val < 0 \/ col.val > 9)

\* The inner loop over the row only skips zeros; the membership test and the
\* append sit after it, once per row, on the loop variable's last value and
\* on the row's fresh, empty seen list.
RECURSIVE nums_unique_per_row_from(_, _)
nums_unique_per_row_from(grid, i) ==
    IF i > Len(grid) THEN TRUE
    ELSE LET row  == grid[i]
             seen == <<>>
             col  == row[Len(row)]
         IN  IF InList(col, seen) THEN FALSE
             ELSE nums_unique_per_row_from(grid, i + 1)

nums_unique_per_row(grid) == nums_unique_per_row_from(grid, 1)

\* fault variant: zeros are not skipped
RECURSIVE column_scan_counting_zero(_, _, _, _)
column_scan_counting_zero(grid, x, i, seen) ==
    IF i > Len(grid) THEN TRUE
    ELSE LET v == grid[i][x + 1]
         IN  IF InList(v, seen) THEN FALSE
             ELSE column_scan_counting_zero(grid, x, i + 1, Append(seen, v))

RECURSIVE column_scan(_, _, _, _)
column_scan(grid, x, i, seen) ==
    IF i > Len(grid) THEN TRUE
    ELSE LET v == grid[i][x + 1]
         IN  IF v = PyInt(0) THEN column_scan(grid, x, i + 1, seen)
             ELSE IF InList(v, seen) THEN FALSE
             ELSE column_scan(grid, x, i + 1, Append(seen, v))

nums_unique_per_column(grid) ==
    \A x \in 0..8 : column_scan(grid, x, 1, <<>>)

\* for col_index, col in enumerate(row): the cells of one row, from
\* col_index on; ok is FALSE where the loop returns False
RECURSIVE subgrid_row_scan(_, _, _, _)
subgrid_row_scan(grid, row_index, col_index, unique_sets) ==
    IF col_index >= Len(grid[row_index + 1])
    THEN [ok |-> TRUE, unique_sets |-> unique_sets]
    ELSE LET value  == grid[row_index + 1][col_index + 1]
             set_id == make_subgrid_id(row_index, col_index)
         IN  IF value = PyInt(0)
             THEN subgrid_row_scan(grid, row_index, col_index + 1, unique_sets)
             ELSE IF InList(value, unique_sets[set_id])
                  THEN [ok |-> FALSE, unique_sets |-> unique_sets]
             ELSE subgrid_row_scan(grid, row_index, col_index + 1,
                                   DictAppend(unique_sets, set_id, value))

\* for row_index, row in enumerate(grid)
RECURSIVE subgrid_scan(_, _, _)
subgrid_scan(grid, row_index, unique_sets) ==
    IF row_index >= Len(grid) THEN TRUE
    ELSE LET r == subgrid_row_scan(grid, row_index, 0, unique_sets)
         IN  IF ~r.ok THEN FALSE
             ELSE subgrid_scan(grid, row_index + 1, r.unique_sets)

nums_unique_per_subgrid(grid) == subgrid_scan(grid, 0, ListDict(SubgridIds))

check_sudoku(grid) ==
    IF ~is_9x9_grid(grid) THEN PyNone
    ELSE IF ~contains_only_0_to_9(grid) THEN PyNone
    ELSE IF ~nums_unique_per_row(grid) THEN PyFalse
    ELSE IF ~nums_unique_per_column(grid) THEN PyFalse
    ELSE IF ~nums_unique_per_subgrid(grid) THEN PyFalse
    ELSE PyTrue

\* ------------------------------------------------------------------
\* CandidateIndexer
\* ------------------------------------------------------------------
cell(grid, k) == grid[(k \div 9) + 1][(k % 9) + 1]

\* the non-zero values of the cells in members, in row-major order
appended(grid, members) ==
    LET ks == SelectSeq([i \in 1..81 |-> i - 1],
                        LAMBDA k : cell(grid, k) # PyInt(0) /\ k \in members)
    IN  [i \in 1..Len(ks) |-> cell(grid, ks[i])]

\* first pass: every non-zero value is appended, in row-major order, to the
\* list of its box, of its row and of its column; a key without a value
\* reads as []
subgrid_sets(grid) ==
    [id \in SubgridIds |->
        appended(grid, {k \in 0..80 : make_subgrid_id(k \div 9, k % 9) = id})]

row_sets(grid) ==
    [row_index \in 0..8 |-> appended(grid, {k \in 0..80 : k \div 9 = row_index})]

col_sets(grid) ==
    [col_index \in 0..8 |-> appended(grid, {k \in 0..80 : k % 9 = col_index})]

\* fault variant: the box is not consulted
open_values_without_box(sets, row_index, col_index) ==
    LET keep(num) == /\ ~InList(num, sets.col_sets[col_index])
                     /\ ~InList(num, sets.row_sets[row_index])
    IN  SelectSeq([n \in 1..9 |-> PyInt(n)], keep)

\* for num in range(1,10): the digits no set excludes, in ascending order
open_values(sets, row_index, col_index) ==
    LET subgrid_id == make_subgrid_id(row_index, col_index)
        keep(num)  == /\ ~InList(num, sets.subgrid_sets[subgrid_id])
                      /\ ~InList(num, sets.col_sets[col_index])
                      /\ ~InList(num, sets.row_sets[row_index])
    IN  SelectSeq([n \in 1..9 |-> PyInt(n)], keep)

pos_id(row_index, col_index) == str(row_index) \o "-" \o str(col_index)

\* second pass: zero_positions gets the candidate list of every zero cell,
\* in row-major order; the first zero cell with an empty list raises
get_open_positions(grid) ==
    LET sets  == [subgrid_sets |-> subgrid_sets(grid),
                  row_sets     |-> row_sets(grid),
                  col_sets     |-> col_sets(grid)]
        zeros == {k \in 0..80 : cell(grid, k) = PyInt(0)}
        nums(k) == open_values(sets, k \div 9, k % 9)
    IN  IF \E k \in zeros : Len(nums(k)) = 0
        THEN [raised |-> TRUE, value |-> EmptyDict]
        ELSE [raised |-> FALSE,
              value  |-> [p \in {pos_id(k \div 9, k % 9) : k \in zeros} |->
                            LET k == CHOOSE z \in zeros :
                                        pos_id(z \div 9, z % 9) = p
                            IN  nums(k)]]

get_possible_values(row, col, positions) ==
    LET key == str(row) \o "-" \o str(col)
    IN  positions[key]

\* ------------------------------------------------------------------
\* BacktrackingSolver
\* ------------------------------------------------------------------
NoValue == [kind |-> "none", ref |-> 0]

FalseValue == [kind |-> PyFalse, ref |-> 0]

GridValue(r) == [kind |-> "grid", ref |-> r]

ExceptionValue == [kind |-> PyException, ref |-> 0]

\* fault variant: the argument itself instead of a copy
no_copy(h, r) == [heap |-> h, ref |-> r]

\* copy.deepcopy: a new object with the same contents
deepcopy(h, r) == [heap |-> Append(h, h[r]), ref |-> Len(h) + 1]

\* for row in range(0,9): for col in range(0,9): if grid[row][col] == 0
\* the first zero cell in row-major order, 81 when the loops run out
first_zero(grid) ==
    LET zeros == {k \in 0..80 : grid[(k \div 9) + 1][(k % 9) + 1] = PyInt(0)}
    IN  IF zeros = {} THEN 81
        ELSE CHOOSE k \in zeros : \A z \in zeros : k <= z

\* entry of _solve(__grid, open_positions)
enter_solve(h, r) ==
    LET c == deepcopy(h, r)
        k == first_zero(c.heap[c.ref])
    IN  [heap  |-> c.heap,
         frame |-> [grid |-> c.ref, row |-> k \div 9, col |-> k % 9, next |-> 1]]

\* fault variant: row and column index exchanged
set_cell_transposed(h, r, row, col, n) == [h EXCEPT ![r][col + 1][row + 1] = n]

set_cell(h, r, row, col, n) == [h EXCEPT ![r][row + 1][col + 1] = n]

\* fault variant: True instead of the grid
solved_true(f) == [kind |-> PyTrue, ref |-> 0]

\* what _solve returns once no zero cell is left: its own grid object
solved_value(f) == GridValue(f.grid)

Top == stack[Len(stack)]

Pop == SubSeq(stack, 1, Len(stack) - 1)

AtZeroCell(f) == f.row < 9

\* a caller-built candidate dict: 1 and 2 at every position, except that
\* the d-th empty cell of the grid (row-major) has no candidate
zero_cells(grid) ==
    SelectSeq([i \in 1..81 |-> i - 1],
              LAMBDA k : grid[(k \div 9) + 1][(k % 9) + 1] = PyInt(0))

supplied_dict(grid, d) ==
    LET zs   == zero_cells(grid)
        dead == IF d <= Len(zs) THEN zs[d] ELSE 81
        keys == {pos_id(k \div 9, k % 9) : k \in 0..80}
        deadkey == IF dead < 81 THEN pos_id(dead \div 9, dead % 9)
                   ELSE "none"
    IN  [p \in keys |-> IF p = deadkey THEN <<>> ELSE <<PyInt(1), PyInt(2)>>]

\* ------------------------------------------------------------------
\* State machine
\* ------------------------------------------------------------------
Init ==
    /\ heap \in {<<g>> : g \in BaseGrids}
    /\ caller = 1
    /\ original = heap[1]
    /\ edits = 0
    /\ pc = "idle"
    /\ checked = "unset"
    /\ supplied = 0
    /\ open_positions = EmptyDict
    /\ stack = <<>>
    /\ ret = NoValue
    /\ result = NoValue
    /\ resubmits = 0

HasCell(grid, pos) ==
    /\ pos[1] + 1 <= Len(grid)
    /\ pos[2] + 1 <= Len(grid[pos[1] + 1])

\* the caller overwrites one cell of the grid it is about to pass
Edit ==
    /\ pc = "idle"
    /\ resubmits = 0
    /\ edits < MaxEdits
    /\ \E pos \in EditCells, v \in EditValues :
          /\ HasCell(heap[caller], pos)
          /\ heap[caller][pos[1] + 1][pos[2] + 1] # v
          /\ heap' = set_cell(heap, caller, pos[1], pos[2], v)
    /\ original' = heap'[caller]
    /\ edits' = edits + 1
    /\ UNCHANGED <<caller, pc, checked, supplied, open_positions, stack,
                   ret, result, resubmits>>

\* the caller drops or adds a row, or a cell of the first row
Reshape ==
    /\ pc = "idle"
    /\ resubmits = 0
    /\ edits < MaxEdits
    /\ LET g == heap[caller]
       IN  \E kind \in {"drop_row", "add_row", "drop_cell", "add_cell"} :
             heap' = [heap EXCEPT ![caller] =
                CASE kind = "drop_row"  -> SubSeq(g, 1, Len(g) - 1)
                  [] kind = "add_row"   -> Append(g, g[1])
                  [] kind = "drop_cell" ->
                        [g EXCEPT ![1] = SubSeq(g[1], 1, Len(g[1]) - 1)]
                  [] kind = "add_cell"  ->
                        [g EXCEPT ![1] = Append(g[1], PyInt(0))]]
    /\ Len(heap'[caller]) >= 8
    /\ Len(heap'[caller][1]) >= 8
    /\ original' = heap'[caller]
    /\ edits' = edits + 1
    /\ UNCHANGED <<caller, pc, checked, supplied, open_positions, stack,
                   ret, result, resubmits>>

Check ==
    /\ pc = "idle"
    /\ checked' = check_sudoku(heap[caller])
    /\ pc' = "checked"
    /\ UNCHANGED <<heap, caller, original, edits, supplied, open_positions,
                   stack, ret, result, resubmits>>

\* solve_sudoku(grid, open_positions=None) up to the entry of _solve.
\* The caller passes a grid that passed the sanity checks.
SolveCall ==
    /\ pc = "checked"
    /\ checked # PyNone
    /\ \E arg \in 0..MaxDead :
          LET computed == get_open_positions(heap[caller])
              e        == enter_solve(heap, caller)
          IN  /\ supplied' = arg
              /\ IF arg = 0 /\ computed.raised
                 THEN /\ pc' = "raised"
                      /\ result' = ExceptionValue
                      /\ UNCHANGED <<heap, open_positions, stack>>
                 ELSE /\ open_positions' =
                            IF arg = 0 THEN computed.value
                            ELSE supplied_dict(heap[caller], arg)
                      /\ heap' = e.heap
                      /\ stack' = <<e.frame>>
                      /\ pc' = "solving"
                      /\ UNCHANGED result
    /\ UNCHANGED <<caller, original, edits, checked, ret, resubmits>>

\* for n in get_possible_values(...): grid[row][col] = n; _solve(grid, ...)
Try ==
    /\ pc = "solving"
    /\ ret = NoValue
    /\ AtZeroCell(Top)
    /\ LET f     == Top
           nums  == get_possible_values(f.row, f.col, open_positions)
       IN  /\ f.next <= Len(nums)
           /\ LET n  == nums[f.next]
                  h1 == set_cell(heap, f.grid, f.row, f.col, n)
                  e  == enter_solve(h1, f.grid)
              IN  /\ heap' = e.heap
                  /\ stack' = Append([stack EXCEPT ![Len(stack)].next = f.next + 1],
                                     e.frame)
    /\ UNCHANGED <<caller, original, edits, pc, checked, supplied,
                   open_positions, ret, result, resubmits>>

\* the candidate loop of the cell ran out: return False
ReturnFalse ==
    /\ pc = "solving"
    /\ ret = NoValue
    /\ AtZeroCell(Top)
    /\ Top.next > Len(get_possible_values(Top.row, Top.col, open_positions))
    /\ ret' = FalseValue
    /\ stack' = Pop
    /\ UNCHANGED <<heap, caller, original, edits, pc, checked, supplied,
                   open_positions, result, resubmits>>

\* the loops found no zero cell: return grid
ReturnGrid ==
    /\ pc = "solving"
    /\ ret = NoValue
    /\ ~AtZeroCell(Top)
    /\ ret' = solved_value(Top)
    /\ stack' = Pop
    /\ UNCHANGED <<heap, caller, original, edits, pc, checked, supplied,
                   open_positions, result, resubmits>>

\* if new is not False: return new
ChildSucceeded ==
    /\ pc = "solving"
    /\ ret.kind = "grid"
    /\ stack # <<>>
    /\ stack' = Pop
    /\ UNCHANGED <<heap, caller, original, edits, pc, checked, supplied,
                   open_positions, ret, result, resubmits>>

\* new is False: go on with the next candidate
ChildFailed ==
    /\ pc = "solving"
    /\ ret = FalseValue
    /\ stack # <<>>
    /\ ret' = NoValue
    /\ UNCHANGED <<heap, caller, original, edits, pc, checked, supplied,
                   open_positions, stack, result, resubmits>>

\* solve_sudoku returns what the outermost _solve returned
Finish ==
    /\ pc = "solving"
    /\ ret # NoValue
    /\ stack = <<>>
    /\ result' = ret
    /\ ret' = NoValue
    /\ pc' = "done"
    /\ UNCHANGED <<heap, caller, original, edits, checked, supplied,
                   open_positions, stack, resubmits>>

\* the caller passes the returned grid to a further check and solve
Resubmit ==
    /\ pc = "done"
    /\ result.kind = "grid"
    /\ resubmits < MaxResubmits
    /\ caller' = result.ref
    /\ original' = heap[result.ref]
    /\ resubmits' = resubmits + 1
    /\ pc' = "idle"
    /\ checked' = "unset"
    /\ supplied' = 0
    /\ open_positions' = EmptyDict
    /\ result' = NoValue
    /\ UNCHANGED <<heap, edits, stack, ret>>

Next ==
    \/ Edit
    \/ Reshape
    \/ Check
    \/ SolveCall
    \/ Try
    \/ ReturnFalse
    \/ ReturnGrid
    \/ ChildSucceeded
    \/ ChildFailed
    \/ Finish
    \/ Resubmit

Spec == Init /\ [][Next]_vars

\* ------------------------------------------------------------------
\* Vocabulary of the properties, stated on grid contents alone
\* ------------------------------------------------------------------
Cells == (0..8) \X (0..8)

At(g, p) == g[p[1] + 1][p[2] + 1]

WellFormed(g) ==
    /\ Len(g) = 9
    /\ \A i \in 1..Len(g) : Len(g[i]) = 9
    /\ \A i \in 1..Len(g) : \A j \in 1..Len(g[i]) :
          g[i][j].type = "int" /\ g[i][j].val \in 0..9

SameRow(p, q) == p[1] = q[1]

SameCol(p, q) == p[2] = q[2]

SameBox(p, q) == (p[1] \div 3 = q[1] \div 3) /\ (p[2] \div 3 = q[2] \div 3)

\* two different cells of one unit hold the same non-zero digit
SameDigit(g, p, q) == p # q /\ At(g, p) = At(g, q) /\ At(g, p) # PyInt(0)

RowDup(g) == \E p \in Cells, q \in Cells : SameRow(p, q) /\ SameDigit(g, p, q)

ColDup(g) == \E p \in Cells, q \in Cells : SameCol(p, q) /\ SameDigit(g, p, q)

BoxDup(g) == \E p \in Cells, q \in Cells : SameBox(p, q) /\ SameDigit(g, p, q)

Filled(g) == \A p \in Cells : At(g, p) # PyInt(0)

Input == heap[caller]

Returned == heap[result.ref]

\* digits absent from the row, the column and the box of cell p in grid g
Free(g, p) ==
    {n \in 1..9 : \A q \in Cells :
        (SameRow(p, q) \/ SameCol(p, q) \/ SameBox(p, q)) => At(g, q) # PyInt(n)}

Least(S) == IF S = {} THEN 0 ELSE CHOOSE n \in S : \A m \in S : n <= m

\* every empty cell of g replaced by the least digit free for it in g
FirstChoiceFill(g) ==
    [i \in 1..9 |-> [j \in 1..9 |->
        IF g[i][j] # PyInt(0) THEN g[i][j]
        ELSE PyInt(Least(Free(g, <<i - 1, j - 1>>)))]]

\* the grid objects the running search holds or has handed back
LiveRefs ==
    {stack[i].grid : i \in 1..Len(stack)}
        \cup (IF ret.kind = "grid" THEN {ret.ref} ELSE {})
        \cup (IF result.kind = "grid" THEN {result.ref} ELSE {})

\* ------------------------------------------------------------------
\* C1: when check_sudoku accepted the input and solve_sudoku returns a grid,
\* the returned grid has every cell in 1..9 and no digit twice in a row,
\* column or box, and check_sudoku accepts it.
C1_ReturnedGridIsValid ==
    (pc = "done" /\ supplied = 0 /\ checked = PyTrue /\ result.kind = "grid")
        => /\ WellFormed(Returned)
           /\ Filled(Returned)
           /\ ~RowDup(Returned) /\ ~ColDup(Returned) /\ ~BoxDup(Returned)
           /\ check_sudoku(Returned) = PyTrue

\* C2: a well-formed grid with the same non-zero digit twice in one row is
\* Invalid (False), also when no column and no box holds a duplicate.
C2_RowDuplicateIsInvalid ==
    (pc = "checked" /\ WellFormed(Input) /\ RowDup(Input))
        => checked = PyFalse

\* C3: for a grid with an empty cell whose row, column and box hold all nine
\* digits, solve_sudoku returns the failure value and does not raise.
C3_ContradictionIsReturned ==
    (/\ pc \in {"done", "raised"}
     /\ supplied = 0
     /\ \E p \in Cells : At(original, p) = PyInt(0) /\ Free(original, p) = {})
        => (pc = "done" /\ result = FalseValue)

\* C4: check_sudoku returns None exactly on the grids that do not have 9
\* rows of 9 integers in 0..9, whatever duplicates they hold.
C4_MalformedIffIllShaped ==
    pc = "checked" => (checked = PyNone <=> ~WellFormed(Input))

C4_Witness ==
    /\ pc = "checked"
    /\ checked = PyNone
    /\ Len(Input) = 9
    /\ \A i \in 1..9 : Len(Input[i]) = 9
    /\ ColDup(Input)

\* C5: a well-formed grid with the same non-zero digit twice in one column
\* or in one 3x3 box is Invalid (False).
C5_ColumnOrBoxDuplicateIsInvalid ==
    (pc = "checked" /\ WellFormed(Input) /\ (ColDup(Input) \/ BoxDup(Input)))
        => checked = PyFalse

C5_Witness ==
    /\ pc = "checked"
    /\ WellFormed(Input)
    /\ BoxDup(Input) /\ ~ColDup(Input) /\ ~RowDup(Input)
    /\ checked = PyFalse

\* C6: a well-formed grid without a repeated non-zero digit in any row,
\* column or box is Valid (True), however many cells hold 0.
C6_ConsistentGridIsValid ==
    (/\ pc = "checked"
     /\ WellFormed(Input)
     /\ ~RowDup(Input) /\ ~ColDup(Input) /\ ~BoxDup(Input))
        => checked = PyTrue

C6_Witness ==
    /\ pc = "checked"
    /\ checked = PyTrue
    /\ \A p \in Cells : At(Input, p) = PyInt(0)

\* C7: from the call of solve_sudoku on, whatever its outcome, the caller's
\* grid object holds in every cell the value it held before the call.
C7_CallerGridUnmodified ==
    pc \in {"solving", "done", "raised"} => heap[caller] = original

C7_Witness ==
    /\ pc = "done"
    /\ result.kind = "grid"
    /\ Returned # original
    /\ heap[caller] = original

\* C8: in every grid of the search and in the returned grid, each cell that
\* was non-zero in the input holds its original value, and the cell an
\* activation is about to write was 0 in the input.
C8_GivensPreserved ==
    pc \in {"solving", "done"} =>
        /\ \A r \in LiveRefs : \A p \in Cells :
              At(original, p) # PyInt(0) => At(heap[r], p) = At(original, p)
        /\ \A i \in 1..Len(stack) :
              AtZeroCell(stack[i]) =>
                  At(original, <<stack[i].row, stack[i].col>>) = PyInt(0)

C8_Witness ==
    /\ pc = "solving"
    /\ Len(stack) >= 3
    /\ heap[Top.grid] # original
    /\ \E p \in Cells : At(original, p) # PyInt(0)

\* C9: on a completely filled grid that check_sudoku accepts, solve_sudoku
\* returns a grid equal cell for cell to its input; and a grid returned by
\* solve_sudoku, passed to solve_sudoku again, comes back equal.
C9_IdempotentOnSolved ==
    (pc = "done" /\ Filled(original) /\ (checked = PyTrue \/ resubmits > 0))
        => (result.kind = "grid" /\ Returned = original)

C9_Witness ==
    /\ pc = "done"
    /\ resubmits = 1
    /\ checked = PyTrue
    /\ result.kind = "grid"
    /\ result.ref # caller
    /\ Returned = original

TypeOK ==
    /\ pc \in {"idle", "checked", "solving", "done", "raised"}
    /\ checked \in {"unset", PyNone, PyTrue, PyFalse}
    /\ caller \in 1..Len(heap)
    /\ supplied \in 0..MaxDead

====
